---- MODULE Spec2Model ----
(***************************************************************************)
(* The page hierarchy ("outline") of a ZWiki folder: the per-page parents  *)
(* property (ParentsPropertyMixin), the cached outline object and its      *)
(* mutators (OutlineManagerMixin: updateWikiOutline, reparent, reorder,    *)
(* wikiOutline) and the hierarchy queries built on it.                     *)
(*                                                                         *)
(* OutlineSupport.py is modelled from its source.  The Outline class       *)
(* (module Outline), Utils.flatten and the page-name resolvers             *)
(* (pageWithName, pageWithFuzzyName) are not part of the available source; *)
(* the Outline_*, flatten and pageWith* definitions below follow the       *)
(* written specification of those collaborators.                           *)
(***************************************************************************)
EXTENDS Integers, Sequences, FiniteSets, TLC

VARIABLES pages, parents, hasOutline, parentmap, childmap, nesting, last, steps, calls

vars == <<pages, parents, hasOutline, parentmap, childmap, nesting, last, steps, calls>>

----------------------------------------------------------------------------
(* Names *)

\* Python's None (a failed lookup, a missing primary parent).
None == "<None>"

\* Every page name the model uses.
Names == {"Alpha", "Beta", "Home", "Projects"}

\* The pages of the small wiki, and of the reference scenario's wiki.
SmallWiki == {"Alpha", "Beta", "Home"}

\* Strings that may be written into a parents property or handed to reparent
\* besides exact page names: a differently spelled name of page Alpha, a name
\* of no page, and the empty string.
AliasOfAlpha == "alpha"
NoSuchPage == "Nowhere"
RawNames == Names \cup {AliasOfAlpha, NoSuchPage}
Candidates == RawNames \cup {""}

\* Position of a string in Python's string order (list.sort on str).
Rank(s) ==
    CASE s = "" -> 0
      [] s = "Alpha" -> 1
      [] s = "Beta" -> 2
      [] s = "Home" -> 3
      [] s = "Nowhere" -> 4
      [] s = "Projects" -> 5
      [] s = "alpha" -> 6
      [] OTHER -> 7

\* Bounds of the model.
MaxRaw == 2
MaxDeclared == 2
MaxCand == 2
MaxSteps == 2
MaxScenarioSteps == 3
MaxGrowSteps == 3
MaxRenderSteps == 2

----------------------------------------------------------------------------
(* Sequence helpers (Python list operations) *)

Elems(s) == {s[i] : i \in 1..Len(s)}

\* All sequences over S of length at most n.
SeqsUpTo(S, n) == UNION {[1..k -> S] : k \in 0..n}

\* x in s
Contains(s, x) == \E i \in 1..Len(s) : s[i] = x

\* s.index(x), 1-based; 0 when absent
IndexOf(s, x) ==
    IF Contains(s, x) THEN CHOOSE i \in 1..Len(s) : s[i] = x /\ \A j \in 1..(i-1) : s[j] # x
    ELSE 0

\* s.remove(x): drops the first occurrence only
RemoveFirst(s, x) ==
    LET i == IndexOf(s, x)
    IN  IF i = 0 THEN s
        ELSE [j \in 1..(Len(s)-1) |-> IF j < i THEN s[j] ELSE s[j+1]]

\* every occurrence removed
RemoveAll(s, x) == SelectSeq(s, LAMBDA y : y # x)

RECURSIVE InsertSorted(_, _)
InsertSorted(s, x) ==
    IF s = <<>> THEN <<x>>
    ELSE IF Rank(x) < Rank(Head(s)) THEN <<x>> \o s
    ELSE <<Head(s)>> \o InsertSorted(Tail(s), x)

\* list.sort(): ascending, duplicates kept
RECURSIVE sorted(_)
sorted(s) == IF s = <<>> THEN <<>> ELSE InsertSorted(sorted(Tail(s)), Head(s))

\* The elements of a set of names as an ascending list.
RECURSIVE SetToSortedSeq(_)
SetToSortedSeq(S) ==
    IF S = {} THEN <<>>
    ELSE LET m == CHOOSE x \in S : \A y \in S : Rank(x) <= Rank(y)
         IN  <<m>> \o SetToSortedSeq(S \ {m})

\* "for p in parents: if not p in uniqueparents: uniqueparents.append(p)"
RECURSIVE UniqueAppend(_, _)
UniqueAppend(acc, s) ==
    IF s = <<>> THEN acc
    ELSE UniqueAppend(IF Contains(acc, Head(s)) THEN acc ELSE Append(acc, Head(s)), Tail(s))

----------------------------------------------------------------------------
(* Name resolution *)

\* pageWithName(name): the page with this name, or None.  Exact page names
\* resolve to themselves, the alias resolves to Alpha, anything else fails.
pageWithName(x) ==
    IF x \in pages THEN x
    ELSE IF x = AliasOfAlpha /\ "Alpha" \in pages THEN "Alpha"
    ELSE None

\* pageWithFuzzyName(name, allow_partial=1)
pageWithFuzzyName(x) == pageWithName(x)

----------------------------------------------------------------------------
(* ParentsPropertyMixin *)

\* setParents: the stored list is a sorted copy.
setParents(ps) == sorted(ps)

\* The cleaned list ensureValidParents computes for page self whose parents
\* property is ps; the property holds this list afterwards (it is written
\* only when it differs).
cleanedupparents(self, ps) ==
    LET found == SelectSeq([i \in 1..Len(ps) |-> pageWithName(ps[i])], LAMBDA x : x # None)
        noself == IF Contains(found, self) THEN RemoveFirst(found, self) ELSE found
    IN  sorted(noself)

ensureValidParents(self, ps) ==
    LET cleaned == cleanedupparents(self, ps)
    IN  IF cleaned # ps THEN setParents(cleaned) ELSE ps

\* "if cleanedupparents != parents: self.setParents(cleanedupparents);
\* self.index_object()": the pages a validation of parents properties par
\* writes and reindexes.
reindexedByValidation(par) == {p \in pages : cleanedupparents(p, par[p]) # par[p]}

----------------------------------------------------------------------------
(* Outline: parentmap, childmap and nesting *)

\* A nesting is a list of items.  An item is a bare page name (sub = FALSE)
\* or a sub-nesting [head, item, ...] (sub = TRUE, kids = the items after
\* the head; a sub-nesting with no kids is a parent whose children were
\* omitted).
Leaf(n) == [name |-> n, sub |-> FALSE, kids |-> <<>>]
Sub(n, ks) == [name |-> n, sub |-> TRUE, kids |-> ks]

\* The empty dictionary, and the child map with no entry.
EmptyMap == [n \in {} |-> <<>>]
NoChildren == [n \in Names |-> <<>>]

\* Longest chain followed before a traversal gives up (cycle defence).
MaxDepth == Cardinality(Names)

\* Outline.parents(node): the parentmap entry, empty when there is none.
Outline_parents(pm, n) == IF n \in DOMAIN pm THEN pm[n] ELSE <<>>

\* Outline.firstParent(node): first entry of parentmap[node], or None.
Outline_firstParent(pm, n) ==
    IF Outline_parents(pm, n) # <<>> THEN Outline_parents(pm, n)[1] ELSE None

\* Outline.children(node): childmap[node], empty when there is none.
Outline_children(cm, n) == IF n \in DOMAIN cm THEN cm[n] ELSE <<>>

\* Outline.siblings gone wrong: the children of every parent are given.
Outline_siblings_allParents(pm, cm, n) ==
    LET ps == Outline_parents(pm, n)
        all == [i \in 1..Len(ps) |-> Outline_children(cm, ps[i])]
        joined == IF Len(ps) = 0 THEN <<>>
                  ELSE IF Len(ps) = 1 THEN all[1]
                  ELSE IF Len(ps) = 2 THEN all[1] \o all[2]
                  ELSE all[1] \o all[2] \o all[3]
    IN  RemoveAll(UniqueAppend(<<>>, joined), n)

\* Outline.siblings(node): the primary parent's children without node.
Outline_siblings(pm, cm, n) ==
    LET p == Outline_firstParent(pm, n)
    IN  IF p = None THEN <<>> ELSE RemoveAll(Outline_children(cm, p), n)

\* The child map a regeneration derives: every node goes to its primary
\* parent's list; children already listed keep their order, new children
\* follow in alphabetical order, anything else is dropped.
calculateChildmap(pm, oldcm) ==
    [p \in Names |->
        LET mine == {c \in DOMAIN pm : Outline_firstParent(pm, c) = p}
            kept == SelectSeq(Outline_children(oldcm, p), LAMBDA c : c \in mine)
        IN  kept \o SetToSortedSeq(mine \ Elems(kept))]

\* The item of node n: a bare name when childless, else a sub-nesting of its
\* children's items.
RECURSIVE NestingOf(_, _, _)
NestingOf(cm, n, depth) ==
    IF Outline_children(cm, n) = <<>> THEN Leaf(n)
    ELSE IF depth = 0 THEN Sub(n, <<>>)
    ELSE Sub(n, [i \in 1..Len(cm[n]) |-> NestingOf(cm, cm[n][i], depth - 1)])

\* The forest: one item per root (node with no parent), roots in
\* alphabetical order.
calculateNesting(pm, cm) ==
    LET roots == SetToSortedSeq({n \in DOMAIN pm : pm[n] = <<>>})
    IN  [i \in 1..Len(roots) |-> NestingOf(cm, roots[i], MaxDepth)]

\* Utils.flatten: the names of a nesting, depth first, left to right.
RECURSIVE flatten(_)
RECURSIVE FlattenItem(_)
FlattenItem(it) == <<it.name>> \o flatten(it.kids)
flatten(nest) == IF nest = <<>> THEN <<>> ELSE FlattenItem(Head(nest)) \o flatten(Tail(nest))

\* Outline.update(): childmap and nesting recomputed from the parentmap.
Outline_update(pm, oldcm) ==
    LET cm == calculateChildmap(pm, oldcm)
    IN  [parentmap |-> pm, childmap |-> cm, nesting |-> calculateNesting(pm, cm)]

\* Outline.reparent gone wrong: the page is put into each new parent's child
\* list at its alphabetical place instead of at the end.
Outline_reparent_sorted(pm, cm, node, newparents) ==
    LET former == Elems(Outline_parents(pm, node))
        now == Elems(newparents)
        pm2 == [n \in DOMAIN pm \cup {node} |-> IF n = node THEN newparents ELSE pm[n]]
        cm2 == [p \in Names |->
                  IF p \in now
                  THEN IF Contains(cm[p], node) THEN cm[p] ELSE sorted(Append(cm[p], node))
                  ELSE IF p \in former THEN RemoveAll(cm[p], node) ELSE cm[p]]
    IN  [parentmap |-> pm2, childmap |-> cm2, nesting |-> calculateNesting(pm2, cm2)]

\* Outline.reparent gone wrong: the page is added to its new parents but stays
\* in the child lists of the parents it left.
Outline_reparent_addOnly(pm, cm, node, newparents) ==
    LET now == Elems(newparents)
        pm2 == [n \in DOMAIN pm \cup {node} |-> IF n = node THEN newparents ELSE pm[n]]
        cm2 == [p \in Names |->
                  IF p \in now /\ ~Contains(cm[p], node) THEN Append(cm[p], node) ELSE cm[p]]
    IN  [parentmap |-> pm2, childmap |-> cm2, nesting |-> calculateNesting(pm2, cm2)]

\* Outline.reparent gone wrong: a page left without parents becomes a root
\* singleton even when it has children; its child list is emptied.
Outline_reparent_rootSingleton(pm, cm, node, newparents) ==
    LET former == Elems(Outline_parents(pm, node))
        now == Elems(newparents)
        pm2 == [n \in DOMAIN pm \cup {node} |-> IF n = node THEN newparents ELSE pm[n]]
        cm2 == [p \in Names |->
                  IF p = node /\ newparents = <<>> THEN <<>>
                  ELSE IF p \in now
                  THEN IF Contains(cm[p], node) THEN cm[p] ELSE Append(cm[p], node)
                  ELSE IF p \in former THEN RemoveAll(cm[p], node) ELSE cm[p]]
    IN  [parentmap |-> pm2, childmap |-> cm2, nesting |-> calculateNesting(pm2, cm2)]

\* Outline.reparent(node, newparents): the parentmap entry is replaced, node
\* leaves the child list of every former parent it is no longer under and is
\* appended to the child list of every new parent that does not list it.
Outline_reparent(pm, cm, node, newparents) ==
    LET former == Elems(Outline_parents(pm, node))
        now == Elems(newparents)
        pm2 == [n \in DOMAIN pm \cup {node} |-> IF n = node THEN newparents ELSE pm[n]]
        cm2 == [p \in Names |->
                  IF p \in now
                  THEN IF Contains(cm[p], node) THEN cm[p] ELSE Append(cm[p], node)
                  ELSE IF p \in former THEN RemoveAll(cm[p], node) ELSE cm[p]]
    IN  [parentmap |-> pm2, childmap |-> cm2, nesting |-> calculateNesting(pm2, cm2)]

\* Outline.reorder gone wrong: child takes the place of its left neighbour,
\* which is lost from the list.
Outline_reorder_overwriting(pm, cm, node, child) ==
    LET cs == Outline_children(cm, node)
        i == IndexOf(cs, child)
        cm2 == IF i > 1 THEN [cm EXCEPT ![node] = SubSeq(cs, 1, i - 2) \o SubSeq(cs, i, Len(cs))]
               ELSE cm
    IN  [parentmap |-> pm, childmap |-> cm2, nesting |-> calculateNesting(pm, cm2)]

\* Outline.reorder(node, child): child swaps with its left neighbour.
Outline_reorder(pm, cm, node, child) ==
    LET cs == Outline_children(cm, node)
        i == IndexOf(cs, child)
        swapped == [j \in 1..Len(cs) |->
                      IF j = i - 1 THEN cs[i] ELSE IF j = i THEN cs[i-1] ELSE cs[j]]
        cm2 == IF i > 1 THEN [cm EXCEPT ![node] = swapped] ELSE cm
    IN  [parentmap |-> pm, childmap |-> cm2, nesting |-> calculateNesting(pm, cm2)]

\* Outline.ancestors(node): a nesting holding the primary-parent line of
\* node, eldest first, node at the bottom.
RECURSIVE PrimaryLine(_, _, _)
PrimaryLine(pm, n, depth) ==
    LET p == Outline_firstParent(pm, n)
    IN  IF p = None \/ depth = 0 THEN <<n>>
        ELSE PrimaryLine(pm, p, depth - 1) \o <<n>>

RECURSIVE ChainItem(_)
ChainItem(c) == IF Len(c) = 1 THEN Leaf(c[1]) ELSE Sub(c[1], <<ChainItem(Tail(c))>>)

Outline_ancestors(pm, n) ==
    LET c == PrimaryLine(pm, n, MaxDepth)
    IN  IF Len(c) = 1 THEN <<Sub(n, <<>>)>> ELSE <<ChainItem(c)>>

\* Outline.offspring gone wrong: the nodes asked about are left out, only
\* their descendants are given.
RECURSIVE Outline_offspring_descendantsOnly(_, _)
Outline_offspring_descendantsOnly(cm, nodes) ==
    IF nodes = <<>> THEN <<>>
    ELSE NestingOf(cm, Head(nodes), MaxDepth).kids
            \o Outline_offspring_descendantsOnly(cm, Tail(nodes))

\* Outline.offspring(nodes): a nesting of the given nodes, each with all its
\* descendants below it.
Outline_offspring(cm, nodes) == [i \in 1..Len(nodes) |-> NestingOf(cm, nodes[i], MaxDepth)]

\* Outline.first(), last(), next(node), previous(node): neighbours in the
\* flattened nesting; None when there is none or node is not in it.
Outline_first(nest) == IF flatten(nest) = <<>> THEN None ELSE flatten(nest)[1]
Outline_last(nest) == IF flatten(nest) = <<>> THEN None ELSE flatten(nest)[Len(flatten(nest))]
Outline_next(nest, n) ==
    LET f == flatten(nest)
        i == IndexOf(f, n)
    IN  IF i = 0 \/ i = Len(f) THEN None ELSE f[i+1]
Outline_previous(nest, n) ==
    LET f == flatten(nest)
        i == IndexOf(f, n)
    IN  IF i <= 1 THEN None ELSE f[i-1]

----------------------------------------------------------------------------
(* OutlineManagerMixin: mutators *)

\* The requests that may run a query at the same time.
Requests == {1, 2}

\* What a query answers: the page's primary parent and its children.
NoAnswer == [parent |-> None, children |-> <<>>]

\* The queries in flight, one per request: where the request is in
\* wikiOutline / updateWikiOutline (idle, check, create, scan, set, read,
\* done), the page asked about, the parentmap the scan has built, the answer
\* given and the answer the query gives when it runs alone.
NoCalls ==
    [q \in Requests |-> [pc |-> "idle", self |-> "", pm |-> <<>>,
                         result |-> NoAnswer, alone |-> NoAnswer]]

\* What the last operation was: its name, the page it was called on, its
\* argument (the pages reparent's candidates resolved to, reorder's child),
\* whether the folder had no outline when it began, whether it is a
\* regeneration that directly follows a regeneration, and whether reparent
\* left any of its candidates out.
Did(op, node, arg) ==
    /\ steps' = steps + 1
    /\ calls' = calls
    /\ last' = [op |-> op, node |-> node, arg |-> arg, fresh |-> ~hasOutline,
                again |-> (op = "rebuild" /\ last.op = "rebuild"), dropped |-> FALSE]

DidReparent(node, cands, unique) ==
    /\ steps' = steps + 1
    /\ calls' = calls
    /\ last' = [op |-> "reparent", node |-> node, arg |-> unique, fresh |-> ~hasOutline,
                again |-> FALSE, dropped |-> (Len(unique) < Len(cands))]

\* The scan gone wrong: ensureValidParents is not called.
validatedParents_unchecked(par) == [p \in pages |-> par[p]]

\* "for p in self.pageObjects(): p.ensureValidParents()": every page's
\* parents property after validation.
validatedParents(par) == [p \in pages |-> ensureValidParents(p, par[p])]

\* "parentmap[p.pageName()] = p.getParents()" for every page.
scannedParentmap(par) == [p \in pages |-> par[p]]

\* updateWikiOutline gone wrong: the parentmap is set but the outline is not
\* updated, so childmap and nesting stay as they were.
regenerated_noUpdate(par) ==
    LET valid == validatedParents(par)
    IN  [parents |-> valid, parentmap |-> scannedParentmap(valid),
         childmap |-> IF hasOutline THEN childmap ELSE NoChildren,
         nesting |-> IF hasOutline THEN nesting ELSE <<>>]

\* updateWikiOutline on parents properties par: a missing outline is created
\* with an empty childmap, an existing one keeps its childmap as the order
\* to preserve; the parents are validated, the parentmap is regenerated and
\* the outline updated.  (A pre-0.39 outline attribute is replaced by an
\* outline object that starts from the attribute's childmap, which is the
\* same as keeping the childmap.)
regenerated(par) ==
    LET oldchildmap == IF hasOutline THEN childmap ELSE NoChildren
        valid == validatedParents(par)
        o == Outline_update(scannedParentmap(valid), oldchildmap)
    IN  [parents |-> valid, parentmap |-> o.parentmap,
         childmap |-> o.childmap, nesting |-> o.nesting]

\* Every order in which the pages can be visited.
ScanOrders == {o \in [1..Cardinality(pages) -> pages] : Elems(o) = pages}

\* The scan gone wrong: a parent is kept only when its own page has been
\* visited already.
RECURSIVE scanIn_visitedOnly(_, _, _)
scanIn_visitedOnly(order, par, pm) ==
    IF order = <<>> THEN [parents |-> par, parentmap |-> pm]
    ELSE LET p == Head(order)
             valid == SelectSeq(ensureValidParents(p, par[p]), LAMBDA x : x \in DOMAIN pm)
             par2 == [par EXCEPT ![p] = valid]
             pm2 == [n \in DOMAIN pm \cup {p} |-> IF n = p THEN valid ELSE pm[n]]
         IN  scanIn_visitedOnly(Tail(order), par2, pm2)

\* The scan of updateWikiOutline, page by page in the given order: the page's
\* parents are validated, then entered into the parentmap being built.
RECURSIVE scanIn(_, _, _)
scanIn(order, par, pm) ==
    IF order = <<>> THEN [parents |-> par, parentmap |-> pm]
    ELSE LET p == Head(order)
             valid == ensureValidParents(p, par[p])
             par2 == [par EXCEPT ![p] = valid]
             pm2 == [n \in DOMAIN pm \cup {p} |-> IF n = p THEN valid ELSE pm[n]]
         IN  scanIn(Tail(order), par2, pm2)

\* updateWikiOutline when pageObjects() yields the pages in the given order.
regeneratedIn(order, par) ==
    LET oldchildmap == IF hasOutline THEN childmap ELSE NoChildren
        scan == scanIn(order, par, EmptyMap)
        o == Outline_update(scan.parentmap, oldchildmap)
    IN  [parents |-> scan.parents, parentmap |-> o.parentmap,
         childmap |-> o.childmap, nesting |-> o.nesting]

\* The truth value of an outline object ("not self.folder().outline"): an
\* outline that exists counts as present whatever it holds.
Outline_nonzero(pm) == TRUE

\* wikiOutline gone wrong: the outline is regenerated on every call.
wikiOutline_always(par) == regenerated(par)

\* wikiOutline(): the folder's outline, generated first when there is none.
wikiOutline(par) ==
    IF ~hasOutline \/ ~Outline_nonzero(parentmap) THEN regenerated(par)
    ELSE [parents |-> par, parentmap |-> parentmap,
          childmap |-> childmap, nesting |-> nesting]

updateWikiOutline ==
    LET r == regenerated(parents)
    IN  /\ parents' = r.parents
        /\ hasOutline' = TRUE
        /\ parentmap' = r.parentmap
        /\ childmap' = r.childmap
        /\ nesting' = r.nesting
        /\ Did("rebuild", "", <<>>)
        /\ UNCHANGED pages

\* The names reparent hands to pageWithFuzzyName: empty strings are removed
\* first.
lookedUp(cands) == SelectSeq(cands, LAMBDA x : x # "")

\* reparent's cleaning gone wrong: duplicates are not removed.
uniqueparents_keepDuplicates(cands) ==
    LET nonempty == lookedUp(cands)
    IN  SelectSeq([i \in 1..Len(nonempty) |-> pageWithFuzzyName(nonempty[i])],
                  LAMBDA x : x # None)

\* reparent's cleaning of its argument: empty strings dropped, names looked
\* up, failed lookups dropped, duplicates dropped keeping the first.
uniqueparents(cands) ==
    LET nonempty == lookedUp(cands)
        found == SelectSeq([i \in 1..Len(nonempty) |-> pageWithFuzzyName(nonempty[i])], LAMBDA x : x # None)
    IN  UniqueAppend(<<>>, found)

\* reparent gone wrong: the parents property is set but the outline is not
\* told.
reparent_propertyOnly(self, cands) ==
    LET unique == uniqueparents(cands)
        w == wikiOutline([parents EXCEPT ![self] = setParents(unique)])
    IN  /\ parents' = w.parents
        /\ hasOutline' = TRUE
        /\ parentmap' = w.parentmap
        /\ childmap' = w.childmap
        /\ nesting' = w.nesting
        /\ DidReparent(self, cands, unique)
        /\ UNCHANGED pages

reparent(self, cands) ==
    LET unique == uniqueparents(cands)
        w == wikiOutline([parents EXCEPT ![self] = setParents(unique)])
        o == Outline_reparent(w.parentmap, w.childmap, self, unique)
    IN  /\ parents' = w.parents
        /\ hasOutline' = TRUE
        /\ parentmap' = o.parentmap
        /\ childmap' = o.childmap
        /\ nesting' = o.nesting
        /\ DidReparent(self, cands, unique)
        /\ UNCHANGED pages

\* reorder gone wrong: page and child are handed to the outline the wrong
\* way round.
reorder_swappedArguments(self, child) ==
    LET w == wikiOutline(parents)
        o == IF Contains(Outline_children(w.childmap, self), child)
             THEN Outline_reorder(w.parentmap, w.childmap, child, self)
             ELSE w
    IN  /\ parents' = w.parents
        /\ hasOutline' = TRUE
        /\ parentmap' = o.parentmap
        /\ childmap' = o.childmap
        /\ nesting' = o.nesting
        /\ Did("reorder", self, <<child>>)
        /\ UNCHANGED pages

reorder(self, child) ==
    LET w == wikiOutline(parents)
        o == IF Contains(Outline_children(w.childmap, self), child)
             THEN Outline_reorder(w.parentmap, w.childmap, self, child)
             ELSE w
    IN  /\ parents' = w.parents
        /\ hasOutline' = TRUE
        /\ parentmap' = o.parentmap
        /\ childmap' = o.childmap
        /\ nesting' = o.nesting
        /\ Did("reorder", self, <<child>>)
        /\ UNCHANGED pages

----------------------------------------------------------------------------
(* OutlineManagerMixin: queries *)

\* A query (on any page): it reads the outline through wikiOutline().
query ==
    LET w == wikiOutline(parents)
    IN  /\ parents' = w.parents
        /\ hasOutline' = TRUE
        /\ parentmap' = w.parentmap
        /\ childmap' = w.childmap
        /\ nesting' = w.nesting
        /\ Did("query", "", <<>>)
        /\ UNCHANGED pages

\* The answers the queries give in the current state.
primaryParentName(self) == Outline_firstParent(wikiOutline(parents).parentmap, self)
childrenAsList(self) == Outline_children(wikiOutline(parents).childmap, self)
siblingsAsList(self) ==
    Outline_siblings(wikiOutline(parents).parentmap, wikiOutline(parents).childmap, self)
ancestorsNesting(self) == Outline_ancestors(wikiOutline(parents).parentmap, self)
\* ancestorsAsList gone wrong: the page itself is not cut off the end.
ancestorsAsList_withSelf(self) == flatten(ancestorsNesting(self))

\* flatten(self.ancestorsNesting())[:-1]
ancestorsAsList(self) ==
    LET f == flatten(ancestorsNesting(self))
    IN  SubSeq(f, 1, Len(f) - 1)

\* What a list query gives when an exception leaves it (no page has this
\* name).
Raised == <<"<raised>">>

\* self.wikiOutline().offspring([self.pageName()])
offspringNesting(self) == Outline_offspring(wikiOutline(parents).childmap, <<self>>)

\* list = flatten(self.offspringNesting()); list.remove(self.pageName()):
\* remove drops the first occurrence and raises ValueError when there is none.
offspringAsList(self) ==
    LET list == flatten(offspringNesting(self))
    IN  IF Contains(list, self) THEN RemoveFirst(list, self) ELSE Raised

firstPage == Outline_first(wikiOutline(parents).nesting)
lastPage == Outline_last(wikiOutline(parents).nesting)
nextPage(self) == Outline_next(wikiOutline(parents).nesting, self)
previousPage(self) == Outline_previous(wikiOutline(parents).nesting, self)

\* self.primaryParentName() and self.childrenAsList() on outline w.
answerOn(w, self) ==
    [parent |-> Outline_firstParent(w.parentmap, self),
     children |-> Outline_children(w.childmap, self)]

\* Two requests ask about a page each at the same moment; no mutator is
\* running.  The answer each would get alone is noted.
issueQueries(self1, self2) ==
    /\ \A q \in Requests : calls[q].pc = "idle"
    /\ calls' = [q \in Requests |->
                   LET self == IF q = 1 THEN self1 ELSE self2
                   IN  [pc |-> "check", self |-> self, pm |-> <<>>, result |-> NoAnswer,
                        alone |-> answerOn(wikiOutline(parents), self)]]
    /\ UNCHANGED <<pages, parents, hasOutline, parentmap, childmap, nesting, last, steps>>

\* wikiOutline, "if not hasattr(folder, 'outline') or not folder.outline":
\* the request goes on to regenerate the outline or to read it.
queryCheck(q) ==
    /\ calls[q].pc = "check"
    /\ calls' = [calls EXCEPT ![q].pc =
                   IF ~hasOutline \/ ~Outline_nonzero(parentmap) THEN "create" ELSE "read"]
    /\ UNCHANGED <<pages, parents, hasOutline, parentmap, childmap, nesting, last, steps>>

\* updateWikiOutline, "if there's no outline object, make one": an empty
\* outline is put into the folder unless one is there by now.
queryCreate(q) ==
    /\ calls[q].pc = "create"
    /\ calls' = [calls EXCEPT ![q].pc = "scan"]
    /\ hasOutline' = TRUE
    /\ parentmap' = IF hasOutline THEN parentmap ELSE EmptyMap
    /\ childmap' = IF hasOutline THEN childmap ELSE NoChildren
    /\ nesting' = IF hasOutline THEN nesting ELSE <<>>
    /\ UNCHANGED <<pages, parents, last, steps>>

\* updateWikiOutline, "for p in self.pageObjects()": every page's parents
\* are validated and entered into the request's own parentmap.
queryScan(q) ==
    /\ calls[q].pc = "scan"
    /\ parents' = validatedParents(parents)
    /\ calls' = [calls EXCEPT ![q].pc = "set",
                              ![q].pm = scannedParentmap(validatedParents(parents))]
    /\ UNCHANGED <<pages, hasOutline, parentmap, childmap, nesting, last, steps>>

\* updateWikiOutline, "outline.setParentmap(parentmap); outline.update()".
querySet(q) ==
    LET o == Outline_update(calls[q].pm, childmap)
    IN  /\ calls[q].pc = "set"
        /\ calls' = [calls EXCEPT ![q].pc = "read"]
        /\ parentmap' = o.parentmap
        /\ childmap' = o.childmap
        /\ nesting' = o.nesting
        /\ UNCHANGED <<pages, parents, hasOutline, last, steps>>

\* "return self.folder().outline" and the query on it.
queryRead(q) ==
    /\ calls[q].pc = "read"
    /\ calls' = [calls EXCEPT ![q].pc = "done",
                              ![q].result = answerOn([parentmap |-> parentmap,
                                                      childmap |-> childmap], calls[q].self)]
    /\ UNCHANGED <<pages, parents, hasOutline, parentmap, childmap, nesting, last, steps>>

----------------------------------------------------------------------------
(* OutlineRenderingMixin *)

\* deepappend(nesting, page) on a sub-nesting [head, item, ...]: page goes to
\* the very bottom of its last branch.
RECURSIVE deepappendItem(_, _)
deepappendItem(it, page) ==
    IF it.kids = <<>> THEN Sub(it.name, <<Leaf(page)>>)
    ELSE LET k == it.kids[Len(it.kids)]
             k2 == IF k.sub THEN deepappendItem(k, page) ELSE Sub(k.name, <<Leaf(page)>>)
         IN  Sub(it.name, [it.kids EXCEPT ![Len(it.kids)] = k2])

\* What an operation on nestings gives when an exception leaves it.
RaisedNesting == <<Leaf("<raised>")>>

\* deepappend(nesting, page); nesting[-1] raises IndexError on an empty list.
deepappend(nest, page) ==
    IF nest = <<>> THEN RaisedNesting
    ELSE LET k == nest[Len(nest)]
         IN  IF k.sub THEN [nest EXCEPT ![Len(nest)] = deepappendItem(k, page)]
             ELSE IF Len(nest) = 1 THEN Append(nest, Leaf(page))
             ELSE [nest EXCEPT ![Len(nest)] = Sub(k.name, <<Leaf(page)>>)]

\* One entry of the list a rendering builds: its type, the page it names
\* ("" when none) and how often the mark of omitted children was added to it.
Ev(t, p) == [type |-> t, page |-> p, dots |-> 0]

\* What a rendering gives when an exception leaves it.
RaisedEvents == <<Ev("<raised>", "")>>

\* got[-1] += the mark of "a parent whose children were omitted"
MarkLast(got) == [got EXCEPT ![Len(got)].dots = @ + 1]

\* renderNestingX: '=!' for the page to highlight, '=' for any other.
TypeX(p, here) == IF p = here THEN "=!" ELSE "="

\* renderNestingX, one pass of "for n in nesting" over item n; the calls for
\* a sub-nesting among the children do not pass suppress_current on.
RECURSIVE renderItemX(_, _, _, _)
RECURSIVE renderItemsX(_, _, _, _)
renderItemX(got, n, here, suppress_current) ==
    IF ~n.sub THEN Append(got, Ev(TypeX(n.name, here), n.name))
    ELSE IF n.name = here /\ suppress_current
    THEN IF n.kids # <<>> THEN renderItemsX(got, n.kids, here, FALSE) ELSE MarkLast(got)
    ELSE IF n.kids # <<>>
    THEN Append(renderItemsX(got \o <<Ev(TypeX(n.name, here), n.name), Ev("+", "")>>,
                             n.kids, here, FALSE),
                Ev("-", ""))
    ELSE MarkLast(Append(got, Ev(TypeX(n.name, here), n.name)))

\* The passes over the items of a list, first to last, each one finished
\* before the next starts (got is never empty: it starts with the opening).
renderItemsX(got, items, here, suppress_current) ==
    IF items = <<>> THEN got
    ELSE LET next == renderItemX(got, Head(items), here, suppress_current)
         IN  IF next = <<>> THEN next
             ELSE renderItemsX(next, Tail(items), here, suppress_current)

\* renderNestingX gone wrong: no closing entry is added at the end.
renderNestingX_unclosed(nest, here, suppress_current) ==
    renderItemsX(<<Ev("+", "")>>, nest, here, suppress_current)

\* renderNestingX(nesting, here, suppress_current): "nesting[0] == here" is
\* true of a bare name only (a list never equals a string) and raises
\* IndexError on an empty nesting.
renderNestingX(nest, here, suppress_current) ==
    IF suppress_current /\ nest = <<>> THEN RaisedEvents
    ELSE IF suppress_current /\ ~nest[1].sub /\ nest[1].name = here THEN <<>>
    ELSE Append(renderItemsX(<<Ev("+", "")>>, nest, here, suppress_current), Ev("-", ""))

\* renderNesting, one pass of "for n in nesting" over item n: the lines
\* added to got.
RECURSIVE renderItem(_, _, _, _)
RECURSIVE renderItems(_, _, _, _)
renderItem(got, n, here, suppress_current) ==
    IF ~n.sub THEN Append(got, Ev("<li></li>", n.name))
    ELSE IF n.name = here /\ suppress_current
    THEN IF n.kids # <<>> THEN renderItems(got, n.kids, here, FALSE) ELSE MarkLast(got)
    ELSE IF n.kids # <<>>
    THEN renderItems(got \o <<Ev("<li>", n.name), Ev("<ul>", "")>>, n.kids, here, FALSE)
            \o <<Ev("</ul>", ""), Ev("</li>", "")>>
    ELSE Append(MarkLast(Append(got, Ev("<li>", n.name))), Ev("</li>", ""))

\* The passes over the items of a list, first to last, each one finished
\* before the next starts (got is never empty: it starts with the opening).
renderItems(got, items, here, suppress_current) ==
    IF items = <<>> THEN got
    ELSE LET next == renderItem(got, Head(items), here, suppress_current)
         IN  IF next = <<>> THEN next
             ELSE renderItems(next, Tail(items), here, suppress_current)

\* renderNesting(nesting, here, suppress_current=...): the lines of the HTML
\* it returns, before page names are turned into links; '' is no line.
renderNesting(nest, here, suppress_current) ==
    IF suppress_current /\ nest = <<>> THEN RaisedEvents
    ELSE IF suppress_current /\ ~nest[1].sub /\ nest[1].name = here THEN <<>>
    ELSE Append(renderItems(<<Ev("<ul class=aqtree3clickable>", "")>>, nest, here,
                            suppress_current),
                Ev("</ul>", ""))

\* Following primary parents from n comes to a page without parents.
LineEnds(pm, n) == Outline_firstParent(pm, PrimaryLine(pm, n, MaxDepth)[1]) = None

\* What the outline may answer for the ancestors of a page whose primary
\* line runs into a cycle: the line cut off at the depth bound, or nothing.
CycleAnswers == {"bounded", "empty"}

\* self.ancestorsNesting() inside a rendering, on outline w.
ancestorsFragment(w, self, onCycle) ==
    IF ~LineEnds(w.parentmap, self) /\ onCycle = "empty" THEN <<>>
    ELSE Outline_ancestors(w.parentmap, self)

\* The 'page' entry of REQUEST: none, or the name of a page being created.
NewPage == "NewPage"
RequestPages == {None, NewPage}

\* A rendering operation ends: by an exception (the transaction is undone,
\* nothing is changed), or with its result after it has or has not reset the
\* page's parents; empty says that the result holds no page and no reset
\* was made.
Rendered(op, self, w, raised, reset, empty) ==
    /\ parents' = IF raised THEN parents
                  ELSE IF reset THEN [w.parents EXCEPT ![self] = setParents(<<>>)]
                  ELSE w.parents
    /\ hasOutline' = IF raised THEN hasOutline ELSE TRUE
    /\ parentmap' = IF raised THEN parentmap ELSE w.parentmap
    /\ childmap' = IF raised THEN childmap ELSE w.childmap
    /\ nesting' = IF raised THEN nesting ELSE w.nesting
    /\ Did(op, self, IF raised THEN <<"raised">> ELSE IF reset THEN <<"reset">>
                      ELSE IF empty THEN <<"empty">> ELSE <<>>)
    /\ UNCHANGED pages

\* context(REQUEST, with_siblings=0, enlarge_current): the ancestors are
\* rendered; the early return for a page without ancestors, the page name of
\* an old edit form appended, and the reset when the rendering is
\* '<ul>\n</ul>'.
context(self, requestPage, enlarge_current, onCycle) ==
    LET w == wikiOutline(parents)
        nest0 == ancestorsFragment(w, self, onCycle)
        early == /\ \/ Len(nest0) = 0
                    \/ Len(nest0) = 1 /\ nest0[1].sub /\ nest0[1].kids = <<>>
                 /\ ~enlarge_current
        here == IF requestPage # None /\ requestPage # self THEN requestPage ELSE self
        nest == IF here # self THEN deepappend(nest0, here) ELSE nest0
        raised == ~early /\ nest = RaisedNesting
        hierarchy == renderNesting(nest, here, FALSE)
        reset == ~early /\ ~raised /\ hierarchy = <<Ev("<ul>", ""), Ev("</ul>", "")>>
        empty == ~early /\ ~raised /\ ~reset /\ Len(hierarchy) = 2
    IN  Rendered("context", self, w, raised, reset, empty)

\* contextX(REQUEST, with_siblings=0): the same for a skin template; the
\* reset happens when the rendering has two entries.
contextX(self, requestPage, onCycle) ==
    LET w == wikiOutline(parents)
        nest0 == ancestorsFragment(w, self, onCycle)
        here == IF requestPage # None /\ requestPage # self THEN requestPage ELSE self
        nest == IF here # self THEN deepappend(nest0, here) ELSE nest0
        raised == nest = RaisedNesting
        hierarchy == renderNestingX(nest, here, FALSE)
        reset == ~raised /\ Len(hierarchy) = 2
    IN  Rendered("contextX", self, w, raised, reset, FALSE)

----------------------------------------------------------------------------
(* Specifications *)

\* The bound on rebuilds before the two queries are issued.
MaxQuerySteps == 1


\* The strings a parents property of a wiki with pages pgs may hold.
RawFor(pgs) == pgs \cup {AliasOfAlpha, NoSuchPage}

\* The candidate lists handed to reparent in a wiki with pages pgs.
CandidateLists(pgs) == SeqsUpTo(RawFor(pgs) \cup {""}, MaxCand)

\* The same without the lists that mix page names with other strings.
PlainLists(pgs) == SeqsUpTo(pgs, MaxCand) \cup {<<x>> : x \in {AliasOfAlpha, NoSuchPage, ""}}

RECURSIVE TotalLen(_, _)
TotalLen(f, S) ==
    IF S = {} THEN 0
    ELSE LET x == CHOOSE y \in S : TRUE IN Len(f[x]) + TotalLen(f, S \ {x})

\* The parents properties a wiki may start with: arbitrary lists (property
\* edits, older versions), at most MaxRaw entries a page and MaxDeclared in
\* all.
Declared(pgs) ==
    {f \in [pgs -> SeqsUpTo(RawFor(pgs), MaxRaw)] : TotalLen(f, pgs) <= MaxDeclared}

\* The reference scenario: Home, Projects under Home, Alpha and Beta under
\* Projects.
ScenarioParents ==
    [p \in Names |->
        CASE p = "Home" -> <<>>
          [] p = "Projects" -> <<"Home">>
          [] OTHER -> <<"Projects">>]

NoOutline ==
    /\ hasOutline = FALSE
    /\ parentmap = EmptyMap
    /\ childmap = NoChildren
    /\ nesting = <<>>
    /\ last = [op |-> "init", node |-> "", arg |-> <<>>, fresh |-> TRUE, again |-> FALSE,
               dropped |-> FALSE]
    /\ steps = 0
    /\ calls = NoCalls

Init ==
    /\ pages = SmallWiki
    /\ parents \in Declared(SmallWiki)
    /\ NoOutline

ScenarioInit ==
    /\ pages = Names
    /\ parents = ScenarioParents
    /\ NoOutline

\* A page is created with the given parents property; the outline is not
\* told.
createPage(name, ps) ==
    /\ name \notin pages
    /\ pages' = pages \cup {name}
    /\ parents' = [p \in pages \cup {name} |-> IF p = name THEN ps ELSE parents[p]]
    /\ UNCHANGED <<hasOutline, parentmap, childmap, nesting>>
    /\ Did("create", name, ps)

\* The reference scenario before page Beta exists.
GrowInit ==
    /\ pages = Names \ {"Beta"}
    /\ parents = [p \in Names \ {"Beta"} |-> ScenarioParents[p]]
    /\ NoOutline

\* reorder is tried with every child of the page and with a name that is
\* not among them.
Next ==
    \/ steps < MaxSteps /\ updateWikiOutline
    \/ steps < MaxSteps /\ \E self \in pages, cands \in CandidateLists(pages) :
          reparent(self, cands)
    \/ steps < MaxSteps /\ \E self \in pages :
          \E child \in Elems(childrenAsList(self)) \cup {NoSuchPage} : reorder(self, child)
    \/ steps < MaxSteps /\ query

ScenarioNext ==
    \/ steps < MaxScenarioSteps /\ updateWikiOutline
    \/ steps < MaxScenarioSteps /\ \E self \in pages, cands \in PlainLists(pages) :
          reparent(self, cands)
    \/ steps < MaxScenarioSteps /\ \E self \in pages :
          \E child \in Elems(childrenAsList(self)) \cup {NoSuchPage} : reorder(self, child)
    \/ steps < MaxScenarioSteps /\ query

GrowNext ==
    \/ steps < MaxGrowSteps /\ updateWikiOutline
    \/ steps < MaxGrowSteps /\ \E name \in Names, ps \in SeqsUpTo(pages, 1) :
          createPage(name, ps)
    \/ steps < MaxGrowSteps /\ \E self \in pages, cands \in PlainLists(pages) :
          reparent(self, cands)
    \/ steps < MaxGrowSteps /\ \E self \in pages :
          \E child \in Elems(childrenAsList(self)) \cup {NoSuchPage} : reorder(self, child)
    \/ steps < MaxGrowSteps /\ query

\* Two queries at a time, on a wiki with or without an outline; the steps of
\* the two requests interleave freely.
QueryNext ==
    \/ steps < MaxQuerySteps /\ (\A q \in Requests : calls[q].pc = "idle") /\ updateWikiOutline
    \/ \E self1 \in pages, self2 \in pages : issueQueries(self1, self2)
    \/ \E q \in Requests : queryCheck(q)
    \/ \E q \in Requests : queryCreate(q)
    \/ \E q \in Requests : queryScan(q)
    \/ \E q \in Requests : querySet(q)
    \/ \E q \in Requests : queryRead(q)

RenderNext ==
    \/ steps < MaxRenderSteps /\ updateWikiOutline
    \/ steps < MaxRenderSteps /\ \E self \in pages, cands \in PlainLists(pages) :
          reparent(self, cands)
    \/ steps < MaxRenderSteps /\
          \E self \in pages, requestPage \in RequestPages, enlarge_current \in BOOLEAN,
             onCycle \in CycleAnswers : context(self, requestPage, enlarge_current, onCycle)
    \/ steps < MaxRenderSteps /\
          \E self \in pages, requestPage \in RequestPages, onCycle \in CycleAnswers :
             contextX(self, requestPage, onCycle)

Spec == Init /\ [][Next]_vars

RenderSpec == Init /\ [][RenderNext]_vars

QuerySpec == Init /\ [][QueryNext]_vars

GrowSpec == GrowInit /\ [][GrowNext]_vars

ScenarioSpec == ScenarioInit /\ [][ScenarioNext]_vars

----------------------------------------------------------------------------
(* Properties *)

\* The parents of the nodes of S, and theirs, up to k generations.
RECURSIVE Up(_, _, _)
Up(pm, S, k) ==
    IF k = 0 THEN S
    ELSE Up(pm, S \cup UNION {Elems(Outline_parents(pm, n)) : n \in S}, k - 1)

\* Every node reachable from n by one or more parent steps.
AncestorSet(pm, n) == Up(pm, Elems(Outline_parents(pm, n)), MaxDepth)

\* No node is its own ancestor.
Acyclic(pm) == \A n \in DOMAIN pm : n \notin AncestorSet(pm, n)

\* s lists every element of S exactly once and nothing else.
ListsExactly(s, S) ==
    /\ Len(s) = Cardinality(S)
    /\ Elems(s) = S

\* C1: rebuild is idempotent: a rebuild that directly follows a rebuild
\* leaves ParentMap, ChildMap and Nesting as the first one left them.
C1_RebuildIdempotent ==
    [][(last.op = "rebuild" /\ last'.op = "rebuild")
        => (parentmap' = parentmap /\ childmap' = childmap /\ nesting' = nesting)]_vars

\* C2: round trip: after a rebuild over acyclic parents the flattened Nesting
\* holds every node of the ParentMap exactly once and no other name.
C2_RoundTrip ==
    (last.op = "rebuild" /\ Acyclic(parentmap))
        => ListsExactly(flatten(nesting), DOMAIN parentmap)

\* C2 witness: a rebuild has run over acyclic parents in which a node has
\* two different parents.
C2_Witness ==
    /\ last.op = "rebuild"
    /\ Acyclic(parentmap)
    /\ \E n \in DOMAIN parentmap : Cardinality(Elems(parentmap[n])) >= 2

\* C5: after a rebuild no page's ParentList (and no ParentMap entry) holds
\* the page's own name.
C5_SelfParentPurged ==
    last.op = "rebuild"
        => \A n \in pages : ~Contains(parents[n], n) /\ ~Contains(parentmap[n], n)

\* C6: whenever a page has parents, its primary parent is the alphabetically
\* smallest of them; it is None when the page has none.
C6_PrimaryParentIsMin ==
    hasOutline =>
        \A n \in pages :
            IF Outline_parents(parentmap, n) = <<>> THEN primaryParentName(n) = None
            ELSE \A p \in Elems(Outline_parents(parentmap, n)) :
                    Rank(primaryParentName(n)) <= Rank(p)

\* C3: a reparent that puts the page under a parent that did not list it
\* appends the page to that parent's child list: the list is the old list
\* followed by the page, not a re-sorted one.
C3_ReparentAppendsLast ==
    [][(last'.op = "reparent" /\ hasOutline)
        => \A p \in Elems(last'.arg) :
              ~Contains(childmap[p], last'.node)
                  => childmap'[p] = Append(childmap[p], last'.node)]_vars

\* C3 witness: Home was reparented under Projects, whose children were
\* Alpha and Beta.
C3_Witness ==
    /\ last.op = "reparent"
    /\ ~last.fresh
    /\ last.node = "Home"
    /\ last.arg = <<"Projects">>
    /\ childmap["Projects"] = <<"Alpha", "Beta", "Home">>

\* after is before with the element at position i moved one place left.
MovedLeft(before, after, i) ==
    /\ Len(after) = Len(before)
    /\ after[i-1] = before[i]
    /\ after[i] = before[i-1]
    /\ \A j \in 1..Len(before) : j \notin {i-1, i} => after[j] = before[j]

\* C4: reorder(node, child) moves child exactly one place left in
\* ChildMap[node], and leaves the list as it was when child is first (or is
\* no child of node).
C4_ReorderSwapsLeft ==
    [][last'.op = "reorder"
        => LET before == childrenAsList(last'.node)
               after == childmap'[last'.node]
               i == IndexOf(before, last'.arg[1])
           IN  IF i > 1 THEN MovedLeft(before, after, i) ELSE after = before]_vars

\* C4 witness: Projects had children Alpha, Beta, Home and Home was moved
\* one place left.
C4_Witness ==
    /\ last.op = "reorder"
    /\ last.node = "Projects"
    /\ last.arg = <<"Home">>
    /\ childmap["Projects"] = <<"Alpha", "Home", "Beta">>

\* The primary parent the outline answers for n.
Primary(n) == Outline_firstParent(wikiOutline(parents).parentmap, n)

\* The nodes reached from those of S by primary-parent steps, up to k steps.
RECURSIVE UpPrimary(_, _)
UpPrimary(S, k) ==
    IF k = 0 THEN S
    ELSE UpPrimary(S \cup ({Primary(n) : n \in S} \ {None}), k - 1)

PrimaryAncestors(n) == UpPrimary({Primary(n)} \ {None}, MaxDepth)

\* Following primary parents from n comes to an end.
PrimaryLineEnds(n) == \A m \in {n} \cup PrimaryAncestors(n) : m \notin PrimaryAncestors(m)

\* c is the primary-parent line of n, eldest first, n itself left out.
IsPrimaryLine(c, n) ==
    IF Primary(n) = None THEN c = <<>>
    ELSE /\ c # <<>>
         /\ Primary(c[1]) = None
         /\ c[Len(c)] = Primary(n)
         /\ \A i \in 1..(Len(c) - 1) : c[i] = Primary(c[i+1])

\* C7: the ancestor list of a page is its primary-parent line, eldest first,
\* without the page itself: one line only, whatever other parents it has.
C7_AncestorsSingleLine ==
    \A n \in pages : PrimaryLineEnds(n) => IsPrimaryLine(ancestorsAsList(n), n)

\* C7 witness: a page with two parents has an ancestor list that leaves out
\* its other parent.
C7_Witness ==
    /\ hasOutline
    /\ \E n \in pages :
          /\ PrimaryLineEnds(n)
          /\ ancestorsAsList(n) # <<>>
          /\ \E p \in Elems(parentmap[n]) : ~Contains(ancestorsAsList(n), p)

\* The reference scenario's child map and nesting.
ScenarioChildmap ==
    [p \in Names |->
        CASE p = "Home" -> <<"Projects">>
          [] p = "Projects" -> <<"Alpha", "Beta">>
          [] OTHER -> <<>>]

ScenarioNesting == <<Sub("Home", <<Sub("Projects", <<Leaf("Alpha"), Leaf("Beta")>>)>>)>>

\* C8: the first rebuild of the reference scenario gives the scenario's
\* ChildMap and Nesting, and the queries on Alpha answer as stated.
C8_ScenarioRebuild ==
    (last.op = "rebuild" /\ last.fresh /\ parents = ScenarioParents)
        => /\ childmap = ScenarioChildmap
           /\ nesting = ScenarioNesting
           /\ siblingsAsList("Alpha") = <<"Beta">>
           /\ nextPage("Alpha") = "Beta"
           /\ ancestorsAsList("Alpha") = <<"Home", "Projects">>

\* C8 witness: the scenario has been rebuilt from no outline.
C8_Witness ==
    /\ last.op = "rebuild"
    /\ last.fresh
    /\ parents = ScenarioParents
    /\ hasOutline

\* C9: after reparent the page is in no child list of a former parent that
\* is not a new parent, and in the child list of every new parent; on the
\* rebuilt scenario reparent(Beta, [Alpha]) leaves Projects with Alpha and
\* Alpha with Beta.
C9_ReparentMoves ==
    [][last'.op = "reparent"
        => LET node == last'.node
               new == Elems(last'.arg)
               former == Elems(parents[node]) \cup Elems(Outline_parents(parentmap, node))
           IN  /\ \A p \in former \ new : ~Contains(childmap'[p], node)
               /\ \A p \in new : Contains(childmap'[p], node)
               /\ (hasOutline /\ childmap = ScenarioChildmap
                     /\ node = "Beta" /\ last'.arg = <<"Alpha">>)
                    => (childmap'["Projects"] = <<"Alpha">>
                          /\ childmap'["Alpha"] = <<"Beta">>)]_vars

\* C9 witness: Beta was moved from Projects to Alpha in the rebuilt scenario.
C9_Witness ==
    /\ last.op = "reparent"
    /\ ~last.fresh
    /\ last.node = "Beta"
    /\ last.arg = <<"Alpha">>
    /\ childmap = [ScenarioChildmap EXCEPT !["Projects"] = <<"Alpha">>, !["Alpha"] = <<"Beta">>]

\* C10: a rebuild that directly follows reorder(node, child), and changes no
\* page's parents, leaves ChildMap[node] in the order the reorder left.
C10_ReorderSurvivesRebuild ==
    [][(last.op = "reorder" /\ last'.op = "rebuild" /\ parents' = parents)
        => childmap'[last.node] = childmap[last.node]]_vars

\* C11: rebuild is independent of scan order: whatever order the pages are
\* visited in, a rebuild from the same outline and the same parents gives
\* the ParentMap, ChildMap and Nesting the rebuild gave.
C11_ScanOrderIndependent ==
    [][last'.op = "rebuild"
        => \A order \in ScanOrders :
              LET r == regeneratedIn(order, parents)
              IN  /\ r.parents = parents'
                  /\ r.parentmap = parentmap'
                  /\ r.childmap = childmap'
                  /\ r.nesting = nesting']_vars

\* C11 witness: a rebuild gave a page two children that no child list held
\* before.
C11_Witness ==
    /\ last.op = "rebuild"
    /\ last.fresh
    /\ \E p \in pages : Len(childmap[p]) >= 2

\* s holds no name twice.
NoDuplicates(s) == \A i, j \in 1..Len(s) : s[i] = s[j] => i = j

\* C12: reparent ignores unresolved and duplicate candidates: the list
\* written to the page and the list handed to the outline hold only names of
\* existing pages, each at most once; and for every candidate list, no empty
\* string is looked up and every name kept is what the resolver answered for
\* one of the candidates looked up.
C12_ReparentCleansCandidates ==
    [][/\ last'.op = "reparent"
           => /\ Elems(last'.arg) \subseteq pages
              /\ NoDuplicates(last'.arg)
              /\ parentmap'[last'.node] = last'.arg
              /\ Elems(parents'[last'.node]) \subseteq Elems(last'.arg)
              /\ NoDuplicates(parents'[last'.node])
       /\ \A cands \in CandidateLists(pages) :
              /\ ~Contains(lookedUp(cands), "")
              /\ Elems(uniqueparents(cands)) =
                    {pageWithFuzzyName(x) : x \in Elems(lookedUp(cands))} \ {None}
              /\ NoDuplicates(uniqueparents(cands))]_vars

\* C12 witness: reparent left some of its candidates out and kept others.
C12_Witness ==
    /\ last.op = "reparent"
    /\ last.dropped
    /\ last.arg # <<>>
    /\ parentmap[last.node] = last.arg

\* C13: a reparent whose candidates are none, or none that resolves, leaves
\* the page with an empty ParentList and an empty ParentMap entry, and in no
\* child list.
C13_ReparentToNothing ==
    [][(last'.op = "reparent" /\ last'.arg = <<>>)
        => /\ parents'[last'.node] = <<>>
           /\ parentmap'[last'.node] = <<>>
           /\ \A p \in Names : ~Contains(childmap'[p], last'.node)]_vars

\* C13 witness: Alpha, a child of Projects in the rebuilt scenario, was
\* reparented with a candidate that resolves to no page.
C13_Witness ==
    /\ last.op = "reparent"
    /\ ~last.fresh
    /\ last.node = "Alpha"
    /\ last.arg = <<>>
    /\ last.dropped
    /\ childmap["Projects"] = <<"Beta">>
    /\ parents["Alpha"] = <<>>

\* The outline as it is stored.
StoredOutline ==
    [parents |-> parents, parentmap |-> parentmap, childmap |-> childmap, nesting |-> nesting]

InOutline(n) ==
    \/ n \in DOMAIN parentmap
    \/ childmap[n] # <<>>
    \/ \E p \in Names : Contains(childmap[p], n)

\* C15: the queries on a page the outline does not know (created after the
\* last rebuild) do not raise: the primary parent is None and children,
\* siblings, ancestors and offspring are empty.
C15_AbsentNodeQueries ==
    \A n \in pages :
        (hasOutline /\ ~InOutline(n))
            => /\ primaryParentName(n) = None
               /\ childrenAsList(n) = <<>>
               /\ siblingsAsList(n) = <<>>
               /\ ancestorsAsList(n) = <<>>
               /\ offspringAsList(n) = <<>>

\* C15 witness: a page was created under a parent after the outline was
\* built, and no rebuild or reparent has entered it since.
C15_Witness ==
    /\ hasOutline
    /\ \E n \in pages : ~InOutline(n) /\ parents[n] # <<>>

\* How often x occurs in s.
Count(s, x) == Cardinality({i \in 1..Len(s) : s[i] = x})

\* Every item of a nesting, at any depth.
RECURSIVE ItemsOf(_)
ItemsOf(nest) ==
    IF nest = <<>> THEN {}
    ELSE {Head(nest)} \cup ItemsOf(Head(nest).kids) \cup ItemsOf(Tail(nest))

\* n is an item of the top level of the nesting.
TopLevel(nest, n) == \E i \in 1..Len(nest) : nest[i].name = n

\* n is an item directly below the item of p.
DirectlyUnder(nest, p, n) ==
    \E it \in ItemsOf(nest) :
        it.name = p /\ \E i \in 1..Len(it.kids) : it.kids[i].name = n

\* C16: while the parents are acyclic, every page is in the Nesting exactly
\* once: directly below its primary parent when it has parents, at the top
\* level when it has none, and as a bare name at the top level when it has
\* neither parents nor children.
C16_NestingInvariant ==
    (hasOutline /\ Acyclic(parentmap))
        => \A n \in DOMAIN parentmap :
              /\ Count(flatten(nesting), n) = 1
              /\ IF parentmap[n] # <<>>
                 THEN DirectlyUnder(nesting, Outline_firstParent(parentmap, n), n)
                 ELSE TopLevel(nesting, n)
              /\ (parentmap[n] = <<>> /\ childmap[n] = <<>>)
                    => \E i \in 1..Len(nesting) : nesting[i] = Leaf(n)

\* C17: once the outline is built, no page's ParentList and no ParentMap
\* entry holds the page's own name, and every name in them is the name of a
\* page; reparent(node, [node]) does not make the page its own parent.
C17_ParentListInvariant ==
    hasOutline
        => \A n \in pages :
              /\ ~Contains(parents[n], n)
              /\ Elems(parents[n]) \subseteq pages
              /\ ~Contains(Outline_parents(parentmap, n), n)
              /\ Elems(Outline_parents(parentmap, n)) \subseteq pages

\* C18: the siblings of a page are the children of its primary parent, in
\* child-list order, without the page itself: a page that is a child only
\* of another parent of the page is not among them, and a page without
\* parents has none.
C18_SiblingsOfPrimaryParent ==
    hasOutline
        => \A n \in pages :
              LET p == primaryParentName(n)
                  sibs == siblingsAsList(n)
              IN  /\ ~Contains(sibs, n)
                  /\ IF p = None THEN sibs = <<>>
                     ELSE /\ sibs = SelectSeq(childmap[p], LAMBDA x : x # n)
                          /\ \A q \in Elems(parentmap[n]) \ {p} :
                                \A c \in Elems(childmap[q]) :
                                    ~Contains(childmap[p], c) => ~Contains(sibs, c)

\* C18 witness: a page has two parents, and its other parent has a child
\* that its primary parent has not.
C18_Witness ==
    /\ hasOutline
    /\ \E n \in pages :
          /\ primaryParentName(n) # None
          /\ \E q \in Elems(parentmap[n]) \ {primaryParentName(n)} :
                \E c \in Elems(childmap[q]) \ {n} :
                    ~Contains(childmap[primaryParentName(n)], c)

\* C19: first, last, next and previous follow the flattened Nesting: first
\* and last are its ends, next(node) and previous(node) are the neighbours of
\* node in it, next(last) and previous(first) are None, both are None for a
\* page that is not in it, and previous(next(node)) is node whenever
\* next(node) is a page.
C19_OrdinalTraversal ==
    hasOutline
        => LET f == flatten(nesting)
           IN  /\ firstPage = (IF f = <<>> THEN None ELSE f[1])
               /\ lastPage = (IF f = <<>> THEN None ELSE f[Len(f)])
               /\ f # <<>> => (nextPage(lastPage) = None /\ previousPage(firstPage) = None)
               /\ \A n \in pages \cup {NoSuchPage} :
                     IF ~Contains(f, n)
                     THEN nextPage(n) = None /\ previousPage(n) = None
                     ELSE /\ \E i \in 1..Len(f) :
                               /\ f[i] = n
                               /\ nextPage(n) = (IF i = Len(f) THEN None ELSE f[i+1])
                          /\ \E i \in 1..Len(f) :
                               /\ f[i] = n
                               /\ previousPage(n) = (IF i = 1 THEN None ELSE f[i-1])
                          /\ nextPage(n) # None => previousPage(nextPage(n)) = n

\* The children of the nodes of S, and theirs, down to k generations.
RECURSIVE Down(_, _)
Down(S, k) ==
    IF k = 0 THEN S
    ELSE Down(S \cup UNION {Elems(childmap[n]) : n \in S}, k - 1)

\* Every node reached from n by one or more child steps.
Descendants(n) == Down(Elems(childmap[n]), MaxDepth)

\* The descendants of n in pre-order: each child followed by its own.
RECURSIVE PreOrderBelow(_, _)
RECURSIVE PreOrderOf(_, _)
PreOrderBelow(n, depth) == IF depth = 0 THEN <<>> ELSE PreOrderOf(childmap[n], depth)

\* The same for a list of children.
PreOrderOf(cs, depth) ==
    IF cs = <<>> THEN <<>>
    ELSE <<Head(cs)>> \o PreOrderBelow(Head(cs), depth - 1) \o PreOrderOf(Tail(cs), depth)

\* C20: the offspring of a page are exactly its proper descendants, in
\* pre-order, each once and never the page itself; a page without children
\* has none.
C20_OffspringProperDescendants ==
    hasOutline
        => \A n \in pages :
              LET off == offspringAsList(n)
              IN  /\ off # Raised
                  /\ Elems(off) = Descendants(n)
                  /\ NoDuplicates(off)
                  /\ ~Contains(off, n)
                  /\ off = PreOrderBelow(n, MaxDepth)
                  /\ childmap[n] = <<>> => off = <<>>

Fragments ==
    UNION {{<<Leaf(p)>>, <<Sub(p, <<>>)>>, ancestorsNesting(p), offspringNesting(p)} : p \in pages}

\* The fragment is a single childless page, the one to highlight.
SingleChildless(frag, here) ==
    Len(frag) = 1 /\ frag[1].kids = <<>> /\ frag[1].name = here

\* C22: suppression short-circuit: with suppress_current, a fragment that is
\* a single childless page equal to the highlight, given as a bare name or as
\* a one-element sub-nesting, renders to nothing; every other rendering
\* starts with the opening and ends with the closing of the whole fragment.
C22_SuppressionShortCircuit ==
    \A frag \in Fragments, here \in pages, suppress_current \in BOOLEAN :
        LET x == renderNestingX(frag, here, suppress_current)
            h == renderNesting(frag, here, suppress_current)
        IN  IF suppress_current /\ SingleChildless(frag, here)
            THEN x = <<>> /\ h = <<>>
            ELSE /\ x # <<>> /\ x[1] = Ev("+", "") /\ x[Len(x)] = Ev("-", "")
                 /\ h # <<>> /\ h[1] = Ev("<ul class=aqtree3clickable>", "")
                 /\ h[Len(h)] = Ev("</ul>", "")

\* The outline a rebuild derives from the pages' ParentLists alone, the stored
\* outline having been discarded.
RebuiltFromParentLists ==
    Outline_update(scannedParentmap(validatedParents(parents)), NoChildren)

\* C23: incremental patches agree with regeneration: after a reparent or a
\* reorder the outline discarded and rebuilt from the ParentLists has the
\* same ParentMap, the same set of children for every node and the same
\* pages in its Nesting as the patched outline has.
C23_PatchesAgreeWithRegeneration ==
    (hasOutline /\ last.op \in {"reparent", "reorder"}) =>
        /\ RebuiltFromParentLists.parentmap = parentmap
        /\ \A n \in DOMAIN childmap :
              Elems(RebuiltFromParentLists.childmap[n]) = Elems(childmap[n])
        /\ Elems(flatten(RebuiltFromParentLists.nesting)) = Elems(flatten(nesting))

\* C24: reparent stores first-seen order: after a reparent the page's
\* ParentList is the list of pages its candidates resolved to, duplicates
\* dropped, in first-seen order, and the outline's entry for the page is the
\* same sequence.
C24_ReparentStoresFirstSeenOrder ==
    last.op = "reparent" =>
        /\ parents[last.node] = last.arg
        /\ parentmap[last.node] = parents[last.node]

HeadNames(items) == [i \in 1..Len(items) |-> items[i].name]

\* C26: a reparent that leaves the page without parents makes it a root of
\* the Nesting: a top-level bare name when it has no children, else a
\* top-level sub-nesting headed by the page that holds all its children in
\* the order they had.
C26_ParentlessBecomesRoot ==
    [][(last'.op = "reparent" /\ last'.arg = <<>>)
        => LET node == last'.node
               kept == IF hasOutline THEN RemoveAll(childmap[node], node)
                       ELSE childmap'[node]
           IN  \E i \in 1..Len(nesting') :
                  /\ nesting'[i].name = node
                  /\ nesting'[i].sub = (kept # <<>>)
                  /\ HeadNames(nesting'[i].kids) = kept]_vars

\* C26 witness: on a stored outline Projects, whose children had been
\* reordered to Beta, Alpha, has been reparented to nothing.
C26_Witness ==
    /\ last.op = "reparent" /\ last.arg = <<>> /\ ~last.fresh
    /\ last.node = "Projects"
    /\ childmap["Projects"] = <<"Beta", "Alpha">>

\* C27: after a rebuild every page's ParentList is in ascending alphabetical
\* order and holds no name twice, whatever the parents properties held
\* before (repeated names, different names of one page).
C27_RebuildSortsAndDeduplicates ==
    last.op = "rebuild" =>
        \A n \in pages : parents[n] = sorted(parents[n]) /\ NoDuplicates(parents[n])

\* The parents property ps of page self needs no cleaning: its names are
\* exact names of other pages, in ascending order.
ValidAndSorted(self, ps) ==
    /\ \A i \in 1..Len(ps) : ps[i] \in pages \ {self}
    /\ ps = sorted(ps)

\* C28: validation writes only on change: a rebuild writes and reindexes
\* exactly the pages whose cleaned list differs from the stored one, none
\* whose stored list was valid and sorted, and none at all when it directly
\* follows a rebuild.
C28_ValidationWritesOnlyOnChange ==
    [][last'.op = "rebuild"
        => /\ reindexedByValidation(parents) = {p \in pages : parents'[p] # parents[p]}
           /\ \A p \in pages :
                 ValidAndSorted(p, parents[p]) => p \notin reindexedByValidation(parents)
           /\ last.op = "rebuild" => reindexedByValidation(parents) = {}]_vars

EmptyHeads(nest) == {it.name : it \in {x \in ItemsOf(nest) : x.sub /\ x.kids = <<>>}}

\* In rendering got of fragment frag the mark of omitted children is on no
\* opening or closing entry and only on entries of pages that head a
\* childless sub-nesting, and each such page that is shown has a marked entry.
MarksWellPlaced(got, frag, here, suppress_current) ==
    /\ \A i \in 1..Len(got) :
          got[i].dots > 0 => got[i].page \in EmptyHeads(frag) /\ got[i].dots = 1
    /\ \A p \in EmptyHeads(frag) :
          ~(p = here /\ suppress_current)
              => \E i \in 1..Len(got) : got[i].page = p /\ got[i].dots > 0

\* C31: elided marker placement: in renderNestingX's and renderNesting's
\* output the mark of omitted children is on an entry if and only if the
\* entry is the head of a sub-nesting without children in the fragment,
\* never on an opening entry or on another page's entry, also when the
\* highlighted page is suppressed.
C31_ElidedMarkerPlacement ==
    \A frag \in Fragments, here \in pages, suppress_current \in BOOLEAN :
        LET x == renderNestingX(frag, here, suppress_current)
            h == renderNesting(frag, here, suppress_current)
        IN  /\ x # RaisedEvents => MarksWellPlaced(x, frag, here, suppress_current)
            /\ h # RaisedEvents => MarksWellPlaced(h, frag, here, suppress_current)

\* C32: concurrent queries are safe with each other: while two queries run
\* and no mutator does, no step of a query changes a ParentList or the
\* outline, and a query that has ended has given the answer it gives when
\* run alone, also when the folder had no outline when the two started.
C32_ConcurrentQueriesSafe ==
    [][(\E q \in Requests : calls[q].pc # "idle")
        => /\ UNCHANGED <<parents, hasOutline, parentmap, childmap, nesting>>
           /\ \A q \in Requests :
                 calls'[q].pc = "done" => calls'[q].result = calls'[q].alone]_vars

\* C33: the cache mirrors the source of truth: once the outline exists, the
\* ParentMap entry of every page is the same sequence as the page's stored
\* ParentList, whatever rebuilds, reparents and context renderings have run.
C33_CacheMirrorsParentLists ==
    hasOutline => \A n \in pages : Outline_parents(parentmap, n) = parents[n]

\* C34: ChildMap and ParentMap agree: whatever rebuilds, reparents and
\* reorders have run, a page listed among the children of p has p among its
\* parents, no child list holds a name twice, and no page is in its own
\* child list.
C34_ChildMapAgreesWithParentMap ==
    hasOutline =>
        \A p \in DOMAIN childmap :
            /\ \A c \in Elems(childmap[p]) : Contains(Outline_parents(parentmap, c), p)
            /\ NoDuplicates(childmap[p])
            /\ ~Contains(childmap[p], p)

====
